---- MODULE Spec2Model ----
(***************************************************************************)
(* A model of the MD Review App core: CommentService (the comment index),  *)
(* StorageService (the durable record kept in localStorage), FileService   *)
(* and the AppProvider session that composes them.                         *)
(*                                                                         *)
(* Strings that the code inspects are sequences of characters (comment     *)
(* text), strings that it only compares are TLA+ strings, and an id of the *)
(* form `${a}-${b}-${c}` is the tuple of its parts.  A Date is its epoch   *)
(* millisecond count; its JSON form is the ISO string, modelled by the     *)
(* seconds and milliseconds fields that the string spells out.             *)
(***************************************************************************)
EXTENDS Integers, Sequences, FiniteSets, TLC

VARIABLES
    store,            \* localStorage item under STORAGE_KEY
    storageMode,      \* how localStorage.setItem behaves: "ok", "unavailable", "quota"
    comments,         \* the live comment index (a CommentMap)
    currentFile,      \* AppProvider state: FileData or NoFile
    activeLineNumber, \* AppProvider state: NoLine or Line(n)
    isCommentSummaryOpen, \* AppProvider state: the comment summary dialog is open
    isExportDialogOpen,   \* AppProvider state: the export dialog is open
    error,            \* AppProvider state: message or Null
    now,              \* Date.now()
    made,             \* how many ids generateId has produced
    loads,            \* how many ids generateFileId has produced
    created,          \* history: ids that addComment put in the live index
    deleted,          \* history: ids that deleteComment took out of it
    heap,             \* the Map objects and the arrays they point to
    editingCommentId, \* CommentThread state: id or NoComment
    inputText,        \* CommentInput state of the comment being edited: text
    inputError,       \* CommentInput state of the comment being edited: error
    deleteDialogOpen, \* CommentThread state
    commentToDelete,  \* CommentThread state: id or NoComment
    onEditCalls,      \* history: the calls of the onEdit prop, in order
    onDeleteCalls,    \* history: the calls of the onDelete prop, in order
    exportStatus,     \* ExportDialog state: "idle", "loading", "success", "error"
    errorMessage,     \* ExportDialog state
    pendingDownloads, \* handleDownload calls waiting at their await, each with
                      \* the comments it captured
    closeTimers,      \* how many auto-close timeouts are armed
    downloads,        \* history: the calls of ExportService.downloadAsFile, each
                      \* as the number of comments exported
    rendered,         \* the currentFile and the comments that the callbacks of
                      \* the last render hold
    last              \* history: the last operation, its inputs and its outcome

vars == <<store, storageMode, comments, currentFile, activeLineNumber,
          isCommentSummaryOpen, isExportDialogOpen, error,
          now, made, loads, created, deleted, heap,
          editingCommentId, inputText, inputError, deleteDialogOpen, commentToDelete,
          onEditCalls, onDeleteCalls, exportStatus, errorMessage, pendingDownloads,
          closeTimers, downloads, rendered, last>>

----------------------------------------------------------------------------
(* Bounds of the exploration *)

MaxComments == 2
MaxTicks == 1
MaxLoads == 2
MaxMaps == 4
MaxCalls == 2

Texts == {<<>>, <<" ">>, <<" ", "a">>, <<"a", "a", " ">>}
\* the texts given to the index when it is the storage service that is exercised
StoredTexts == {<<" ">>, <<"a">>, <<" ", "a", " ">>}
LineNumbers == 0..2
StartOfTime == 1000 - 1
Times == StartOfTime..(StartOfTime + MaxTicks)

Null == "null"
NoFile == [none |-> TRUE]
NoLine == <<>>
\* null for a comment id
NoComment == <<>>
Line(n) == <<n>>

----------------------------------------------------------------------------
(* Generic sequence helpers *)

Range(s) == {s[i] : i \in 1..Len(s)}

RECURSIVE Concat(_)
Concat(ss) == IF ss = <<>> THEN <<>> ELSE Head(ss) \o Concat(Tail(ss))

----------------------------------------------------------------------------
(* String.prototype.trim on a character sequence *)

RECURSIVE TrimStart(_)
TrimStart(s) == IF s # <<>> /\ Head(s) = " " THEN TrimStart(Tail(s)) ELSE s

RECURSIVE TrimEnd(_)
TrimEnd(s) ==
    IF s # <<>> /\ s[Len(s)] = " " THEN TrimEnd(SubSeq(s, 1, Len(s) - 1)) ELSE s

Trim(s) == TrimEnd(TrimStart(s))

----------------------------------------------------------------------------
(* JSON values, tagged by type *)

Undefined == [t |-> "undefined"]
JNull == [t |-> "null"]
JNumber(n) == [t |-> "number", n |-> n]
JString(s) == [t |-> "string", s |-> s]
JArray(a) == [t |-> "array", a |-> a]
JObject(o) == [t |-> "object", o |-> o]

\* JavaScript's !v
Falsy(v) ==
    \/ v.t \in {"undefined", "null"}
    \/ v.t = "number" /\ v.n = 0
    \/ v.t = "string" /\ v.s = ""

\* faulty variant: the instant is written to the second
ToISOStringToSeconds(d) == [sec |-> d \div 1000, ms |-> 0]

\* Date.prototype.toJSON: the ISO string, to the millisecond
ToISOString(d) == [sec |-> d \div 1000, ms |-> d % 1000]

\* new Date(isoString)
NewDate(iso) == iso.sec * 1000 + iso.ms

\* JSON.stringify of a Comment
StringifyComment(c) ==
    JObject([id |-> c.id, lineNumber |-> c.lineNumber, text |-> c.text,
             createdAt |-> ToISOString(c.createdAt),
             updatedAt |-> ToISOString(c.updatedAt)])

\* JSON.stringify of a FileData
StringifyFile(f) ==
    JObject([id |-> f.id, name |-> f.name, content |-> f.content,
             lines |-> f.lines, uploadedAt |-> ToISOString(f.uploadedAt)])

\* obj[key] = value on a plain object: the key "__proto__" sets the prototype
\* and creates no own property
SetProperty(obj, key, value) ==
    IF key = <<"__proto__">> THEN obj
    ELSE [k \in DOMAIN obj \cup {key} |-> IF k = key THEN value ELSE obj[k]]

\* Object.prototype.hasOwnProperty.call(obj, key)
HasOwnProperty(obj, key) == key \in DOMAIN obj

----------------------------------------------------------------------------
(* The localStorage item *)

NoItem == [k |-> "none"]          \* getItem returns null
Text(s) == [k |-> "text", s |-> s] \* a string that is not JSON text
Json(v) == [k |-> "json", v |-> v] \* the JSON text of value v

STORAGE_VERSION == "1.0.0"

----------------------------------------------------------------------------
(* CommentMap: a JavaScript Map from line number to Comment[], kept as the  *)
(* sequence of its entries in insertion order                               *)

EmptyMap == <<>>

MapKeys(m) == {m[i].line : i \in 1..Len(m)}

MapHas(m, k) == k \in MapKeys(m)

\* m.get(k) || []
MapGetOrEmpty(m, k) ==
    IF MapHas(m, k) THEN (CHOOSE e \in Range(m) : e.line = k).list ELSE <<>>

\* m.set(k, v): an existing key keeps its place, a new key goes last
MapSet(m, k, v) ==
    IF MapHas(m, k)
    THEN [i \in 1..Len(m) |-> IF m[i].line = k THEN [line |-> k, list |-> v] ELSE m[i]]
    ELSE Append(m, [line |-> k, list |-> v])

\* every record of the map, entry by entry (forEach + push(...list))
Flatten(m) == Concat([i \in 1..Len(m) |-> m[i].list])

IdsOf(m) == {c.id : c \in Range(Flatten(m))}

----------------------------------------------------------------------------
(* CommentService *)

\* faulty variant: the id is the timestamp alone
generateIdFromClock(t, rnd) == <<"comment", t, 0>>

generateId(t, rnd) == <<"comment", t, rnd>>

validateCommentText(text) == Len(Trim(text)) > 0

\* faulty variant: no validation
createCommentUnchecked(lineNumber, text, t, rnd) ==
    [threw |-> FALSE, error |-> Null,
     comment |-> [id |-> generateId(t, rnd), lineNumber |-> lineNumber,
                  text |-> Trim(text), createdAt |-> t, updatedAt |-> t]]

createComment(lineNumber, text, t, rnd) ==
    IF ~validateCommentText(text)
    THEN [threw |-> TRUE, error |-> "Comment text cannot be empty or whitespace-only"]
    ELSE IF lineNumber < 1
    THEN [threw |-> TRUE, error |-> "Line number must be greater than 0"]
    ELSE [threw |-> FALSE, error |-> Null,
          comment |-> [id |-> generateId(t, rnd), lineNumber |-> lineNumber,
                       text |-> Trim(text), createdAt |-> t, updatedAt |-> t]]

\* faulty variant: the record is rebuilt as if it were new
updateCommentAsNew(comment, text, t) ==
    IF ~validateCommentText(text)
    THEN [threw |-> TRUE, error |-> "Comment text cannot be empty or whitespace-only"]
    ELSE [threw |-> FALSE, error |-> Null,
          comment |-> [comment EXCEPT !.text = Trim(text), !.createdAt = t,
                                      !.updatedAt = t]]

updateComment(comment, text, t) ==
    IF ~validateCommentText(text)
    THEN [threw |-> TRUE, error |-> "Comment text cannot be empty or whitespace-only"]
    ELSE [threw |-> FALSE, error |-> Null,
          comment |-> [comment EXCEPT !.text = Trim(text), !.updatedAt = t]]

\* faulty variant: a line whose list became empty keeps its key
deleteCommentKeepingKeys(cm, commentId) ==
    [i \in 1..Len(cm) |->
        [line |-> cm[i].line,
         list |-> SelectSeq(cm[i].list, LAMBDA c : c.id # commentId)]]

deleteComment(cm, commentId) ==
    LET filtered == [i \in 1..Len(cm) |->
                       [line |-> cm[i].line,
                        list |-> SelectSeq(cm[i].list, LAMBDA c : c.id # commentId)]]
    IN SelectSeq(filtered, LAMBDA e : Len(e.list) > 0)

\* Array.prototype.sort with (a, b) => a.createdAt - b.createdAt: a stable sort
RECURSIVE InsertByCreatedAt(_, _)
InsertByCreatedAt(sorted, c) ==
    IF sorted = <<>> THEN <<c>>
    ELSE IF c.createdAt < Head(sorted).createdAt THEN <<c>> \o sorted
    ELSE <<Head(sorted)>> \o InsertByCreatedAt(Tail(sorted), c)

RECURSIVE SortByCreatedAt(_)
SortByCreatedAt(s) ==
    IF s = <<>> THEN <<>>
    ELSE InsertByCreatedAt(SortByCreatedAt(SubSeq(s, 1, Len(s) - 1)), s[Len(s)])

\* faulty variant: the list as stored, unsorted
getCommentsForLineAsStored(cm, lineNumber) == MapGetOrEmpty(cm, lineNumber)

getCommentsForLine(cm, lineNumber) == SortByCreatedAt(MapGetOrEmpty(cm, lineNumber))

getAllComments(cm) == SortByCreatedAt(Flatten(cm))

\* a variant that files every comment under the first line
addCommentToMapOnFirstLine(cm, comment) ==
    MapSet(cm, 1, Append(MapGetOrEmpty(cm, 1), comment))

addCommentToMap(cm, comment) ==
    MapSet(cm, comment.lineNumber, Append(MapGetOrEmpty(cm, comment.lineNumber), comment))

updateCommentInMap(cm, updatedComment) ==
    [i \in 1..Len(cm) |->
        [line |-> cm[i].line,
         list |-> [j \in 1..Len(cm[i].list) |->
                     IF cm[i].list[j].id = updatedComment.id
                     THEN updatedComment ELSE cm[i].list[j]]]]

----------------------------------------------------------------------------
(* CommentService on the heap: a Map object is the sequence of its entries, *)
(* each a line key and a reference to an array; h.maps and h.arrays hold    *)
(* the objects, a reference being an object's position                      *)

\* the CommentMap value that the Map object m of heap h stands for
Deref(h, m) ==
    [i \in 1..Len(h.maps[m]) |->
        [line |-> h.maps[m][i].line, list |-> h.arrays[h.maps[m][i].list]]]

\* the arrays allocated one after the other, the first at the end of h.arrays
Allocate(h, lists) == h.arrays \o lists

\* faulty variant: the comment is pushed onto the array the Map given points to
addCommentToMapPushing(h, m, comment) ==
    LET newComments == h.maps[m]
        k == comment.lineNumber
    IN IF MapHas(newComments, k)
       THEN [heap |-> [maps |-> Append(h.maps, newComments),
                       arrays |-> [h.arrays EXCEPT ![MapGetOrEmpty(newComments, k)] =
                                      Append(@, comment)]],
             result |-> Len(h.maps) + 1]
       ELSE [heap |-> [maps |-> Append(h.maps, MapSet(newComments, k, Len(h.arrays) + 1)),
                       arrays |-> Allocate(h, <<<<comment>>>>)],
             result |-> Len(h.maps) + 1]

\* new Map(comments) copies the entries and shares their arrays; the spread
\* [...lineComments, comment] is a new array
addCommentToMapOnHeap(h, m, comment) ==
    LET newComments == h.maps[m]
        k == comment.lineNumber
        lineComments == IF MapHas(newComments, k)
                        THEN h.arrays[MapGetOrEmpty(newComments, k)] ELSE <<>>
    IN [heap |-> [maps |-> Append(h.maps, MapSet(newComments, k, Len(h.arrays) + 1)),
                  arrays |-> Allocate(h, <<Append(lineComments, comment)>>)],
        result |-> Len(h.maps) + 1]

\* a new Map; commentList.map(...) is a new array for every entry
updateCommentInMapOnHeap(h, m, updatedComment) ==
    LET given == h.maps[m]
        updatedList(i) ==
            [j \in 1..Len(h.arrays[given[i].list]) |->
                IF h.arrays[given[i].list][j].id = updatedComment.id
                THEN updatedComment ELSE h.arrays[given[i].list][j]]
        newComments == [i \in 1..Len(given) |->
                           [line |-> given[i].line, list |-> Len(h.arrays) + i]]
    IN [heap |-> [maps |-> Append(h.maps, newComments),
                  arrays |-> Allocate(h, [i \in 1..Len(given) |-> updatedList(i)])],
        result |-> Len(h.maps) + 1]

\* a new Map; commentList.filter(...) is a new array for every entry, set
\* into the new Map when it is not empty
deleteCommentOnHeap(h, m, commentId) ==
    LET given == h.maps[m]
        filteredComments(i) ==
            SelectSeq(h.arrays[given[i].list], LAMBDA c : c.id # commentId)
        entries == [i \in 1..Len(given) |->
                       [line |-> given[i].line, list |-> Len(h.arrays) + i]]
        arrays == Allocate(h, [i \in 1..Len(given) |-> filteredComments(i)])
    IN [heap |-> [maps |-> Append(h.maps,
                              SelectSeq(entries, LAMBDA e : Len(arrays[e.list]) > 0)),
                  arrays |-> arrays],
        result |-> Len(h.maps) + 1]

----------------------------------------------------------------------------
(* StorageService *)

isStorageAvailable(mode) == mode # "unavailable"

\* faulty variant: the empty record has no version
createEmptyStorageDataUnversioned ==
    JObject([version |-> Undefined, files |-> JObject(<<>>),
             comments |-> JObject(<<>>), currentFileId |-> JNull])

createEmptyStorageData ==
    JObject([version |-> JString(STORAGE_VERSION), files |-> JObject(<<>>),
             comments |-> JObject(<<>>), currentFileId |-> JNull])

\* v && typeof v === 'object' && !Array.isArray(v)
IsPlainObject(v) == ~Falsy(v) /\ v.t = "object"

\* The parsed record, or the empty record after a corrupted-data warning
\* (console.error and the "Storage data corrupted" toast).
getStorageData(item) ==
    LET fresh(w) == [data |-> createEmptyStorageData, warnings |-> w] IN
    IF item.k = "none" \/ (item.k = "text" /\ item.s = "") THEN fresh(0)
    ELSE IF item.k = "text" THEN fresh(1)
    ELSE LET parsed == item.v IN
         IF ~IsPlainObject(parsed) THEN fresh(1)
         ELSE IF Falsy(parsed.o.version) \/ parsed.o.version.t # "string" THEN fresh(1)
         ELSE IF ~IsPlainObject(parsed.o.files) THEN fresh(1)
         ELSE IF ~IsPlainObject(parsed.o.comments) THEN fresh(1)
         ELSE [data |-> parsed, warnings |-> 0]

\* faulty variant: a failing setItem is swallowed
setStorageDataSilently(item, mode, data) ==
    IF mode = "ok"
    THEN [threw |-> FALSE, error |-> Null, store |-> Json(data)]
    ELSE [threw |-> FALSE, error |-> Null, store |-> item]

\* faulty variant: a quota failure is reported as any other failure
setStorageDataUnclassified(item, mode, data) ==
    IF mode = "ok"
    THEN [threw |-> FALSE, error |-> Null, store |-> Json(data)]
    ELSE [threw |-> TRUE, error |-> "Failed to save to storage", store |-> item]

\* localStorage.setItem(STORAGE_KEY, JSON.stringify(data)); data is already in
\* its JSON form, the Stringify operators having been applied where a live
\* value was stored into it.
setStorageData(item, mode, data) ==
    IF mode = "ok"
    THEN [threw |-> FALSE, error |-> Null, store |-> Json(data)]
    ELSE IF mode = "quota"
    THEN [threw |-> TRUE, error |-> "Storage quota exceeded. Please clear old data.",
          store |-> item]
    ELSE [threw |-> TRUE, error |-> "Failed to save to storage", store |-> item]

\* faulty variant: the list replaces the whole comments object
saveCommentsAlone(item, mode, fileId, cm) ==
    IF ~isStorageAvailable(mode)
    THEN [threw |-> TRUE, error |-> "Local storage is not available",
          store |-> item, setItems |-> 0, warnings |-> 0]
    ELSE LET got == getStorageData(item)
             commentsArray == Flatten(cm)
             entry == JArray([i \in 1..Len(commentsArray) |->
                                StringifyComment(commentsArray[i])])
             newData == JObject([got.data.o EXCEPT !.comments =
                                   JObject(SetProperty(<<>>, fileId, entry))])
             res == setStorageData(item, mode, newData)
         IN [threw |-> res.threw, error |-> res.error, store |-> res.store,
             setItems |-> 1, warnings |-> got.warnings]

\* faulty variant: the list is also stored under the first document's id
saveCommentsUnderCurrentToo(item, mode, fileId, cm) ==
    IF ~isStorageAvailable(mode)
    THEN [threw |-> TRUE, error |-> "Local storage is not available",
          store |-> item, setItems |-> 0, warnings |-> 0]
    ELSE LET got == getStorageData(item)
             commentsArray == Flatten(cm)
             entry == JArray([i \in 1..Len(commentsArray) |->
                                StringifyComment(commentsArray[i])])
             both == SetProperty(SetProperty(got.data.o.comments.o, fileId, entry),
                                 <<"A">>, entry)
             newData == JObject([got.data.o EXCEPT !.comments = JObject(both)])
             res == setStorageData(item, mode, newData)
         IN [threw |-> res.threw, error |-> res.error, store |-> res.store,
             setItems |-> 1, warnings |-> got.warnings]

saveComments(item, mode, fileId, cm) ==
    IF ~isStorageAvailable(mode)
    THEN [threw |-> TRUE, error |-> "Local storage is not available",
          store |-> item, setItems |-> 0, warnings |-> 0]
    ELSE LET got == getStorageData(item)
             data == got.data
             commentsArray == Flatten(cm)
             entry == JArray([i \in 1..Len(commentsArray) |->
                                StringifyComment(commentsArray[i])])
             newData == JObject([data.o EXCEPT !.comments =
                                   JObject(SetProperty(data.o.comments.o, fileId, entry))])
             res == setStorageData(item, mode, newData)
         IN [threw |-> res.threw, error |-> res.error, store |-> res.store,
             setItems |-> 1, warnings |-> got.warnings]

\* { ...comment, createdAt: new Date(comment.createdAt), updatedAt: ... }
RestoreComment(e) ==
    [id |-> e.o.id, lineNumber |-> e.o.lineNumber, text |-> e.o.text,
     createdAt |-> NewDate(e.o.createdAt), updatedAt |-> NewDate(e.o.updatedAt)]

\* the forEach of loadComments: push each restored comment onto its line's list
RECURSIVE GroupByLine(_, _)
GroupByLine(cm, arr) ==
    IF arr = <<>> THEN cm
    ELSE LET c == RestoreComment(Head(arr)) IN
         GroupByLine(MapSet(cm, c.lineNumber,
                            Append(MapGetOrEmpty(cm, c.lineNumber), c)),
                     Tail(arr))

\* A null element makes `comment.createdAt` throw a TypeError out of
\* loadComments.
loadComments(item, fileId) ==
    LET got == getStorageData(item)
        own == got.data.o.comments.o
        out(threw, cm) == [threw |-> threw, map |-> cm, warnings |-> got.warnings]
    IN IF ~HasOwnProperty(own, fileId) THEN out(FALSE, EmptyMap)
       ELSE IF own[fileId].t # "array" THEN out(FALSE, EmptyMap)
       ELSE IF \E i \in 1..Len(own[fileId].a) : own[fileId].a[i].t = "null"
       THEN out(TRUE, EmptyMap)
       ELSE out(FALSE, GroupByLine(EmptyMap, own[fileId].a))

\* faulty variant: the record is rebuilt around the one file
saveFileDataAlone(item, mode, fileData) ==
    IF ~isStorageAvailable(mode)
    THEN [threw |-> TRUE, error |-> "Local storage is not available",
          store |-> item, setItems |-> 0, warnings |-> 0]
    ELSE LET got == getStorageData(item)
             newData == JObject([createEmptyStorageData.o EXCEPT
                            !.files = JObject(SetProperty(<<>>, fileData.id,
                                                          StringifyFile(fileData))),
                            !.currentFileId = JString(fileData.id)])
             res == setStorageData(item, mode, newData)
         IN [threw |-> res.threw, error |-> res.error, store |-> res.store,
             setItems |-> 1, warnings |-> got.warnings]

saveFileData(item, mode, fileData) ==
    IF ~isStorageAvailable(mode)
    THEN [threw |-> TRUE, error |-> "Local storage is not available",
          store |-> item, setItems |-> 0, warnings |-> 0]
    ELSE LET got == getStorageData(item)
             data == got.data
             newData == JObject([data.o EXCEPT
                            !.files = JObject(SetProperty(data.o.files.o, fileData.id,
                                                          StringifyFile(fileData))),
                            !.currentFileId = JString(fileData.id)])
             res == setStorageData(item, mode, newData)
         IN [threw |-> res.threw, error |-> res.error, store |-> res.store,
             setItems |-> 1, warnings |-> got.warnings]

\* The value returned: JNull, or the stored entry spread into a fresh object
\* with uploadedAt rebuilt; an entry without an uploadedAt gives an Invalid
\* Date.
InvalidDate == "Invalid Date"

loadFileData(item, fileId) ==
    LET got == getStorageData(item)
        own == got.data.o.files.o
        out(v) == [threw |-> FALSE, file |-> v, warnings |-> got.warnings]
    IN IF ~HasOwnProperty(own, fileId) THEN out(JNull)
       ELSE IF Falsy(own[fileId]) THEN out(JNull)
       ELSE IF own[fileId].t = "object"
       THEN out(JObject([id |-> own[fileId].o.id, name |-> own[fileId].o.name,
                         content |-> own[fileId].o.content,
                         lines |-> own[fileId].o.lines,
                         uploadedAt |-> NewDate(own[fileId].o.uploadedAt)]))
       ELSE out(JObject([uploadedAt |-> InvalidDate]))

\* faulty variant: an empty record is written in place of the item
clearStorageToEmptyRecord(item) == Json(createEmptyStorageData)

\* localStorage.removeItem(STORAGE_KEY)
clearStorage(item) == NoItem

getCurrentFileId(item) == getStorageData(item).data.o.currentFileId

----------------------------------------------------------------------------
(* FileService *)

\* String.prototype.toLowerCase on a file extension
ToLowerCase(ext) ==
    CASE ext = ".MD" -> ".md"
      [] ext = ".Markdown" -> ".markdown"
      [] OTHER -> ext

VALID_EXTENSIONS == {".md", ".markdown"}

\* faulty variant: every name passes
validateFileAnyName(name) == name.ext = name.ext

\* a file name is its stem and its extension (the text from the last dot on)
validateFile(name) == ToLowerCase(name.ext) \in VALID_EXTENSIONS

generateFileId(name, t, rnd) == <<name, t, rnd>>

\* content.split(/\r?\n/): content is the sequence of its characters
RECURSIVE parseLines(_)
parseLines(content) ==
    LET at == {i \in 1..Len(content) : content[i] = "\n"} IN
    IF at = {} THEN <<content>>
    ELSE LET i == CHOOSE j \in at : \A k \in at : j <= k
             line == SubSeq(content, 1, i - 1)
             bare == IF line # <<>> /\ line[Len(line)] = "\r"
                     THEN SubSeq(line, 1, Len(line) - 1) ELSE line
         IN <<bare>> \o parseLines(SubSeq(content, i + 1, Len(content)))

----------------------------------------------------------------------------
(* Inputs *)

ApiFileIds == {<<"A">>, <<"B">>, <<"__proto__">>}
Contents == {<<"x">>}
FileNames == {[stem |-> "a", ext |-> ".MD"], [stem |-> "c", ext |-> ".txt"]}
StorageModes == {"ok", "unavailable", "quota"}

AllComments(cm) == Range(Flatten(cm))

\* an id no comment has
UnknownId == <<"comment", 0, 0>>

----------------------------------------------------------------------------
(* What may be put under STORAGE_KEY behind the service's back *)

IsStorageData(item) == item.k = "json" /\ getStorageData(item).warnings = 0

\* every per-file entry has the shape the service writes
Untampered(item) ==
    \/ item.k = "none"
    \/ /\ IsStorageData(item)
       /\ \A d \in DOMAIN item.v.o.comments.o :
             /\ item.v.o.comments.o[d].t = "array"
             /\ \A i \in 1..Len(item.v.o.comments.o[d].a) :
                   item.v.o.comments.o[d].a[i].t = "object"
       /\ \A d \in DOMAIN item.v.o.files.o : item.v.o.files.o[d].t = "object"

WholeItemDamage ==
    {Text(""), Text("not valid json"), Json(JNull), Json(JArray(<<>>))}

FieldDamage(data) ==
    {Json(JObject([data.o EXCEPT !.version = v])) :
        v \in {Undefined, JNumber(1), JString("")}}
    \cup {Json(JObject([data.o EXCEPT !.files = v])) : v \in {Undefined, JArray(<<>>)}}
    \cup {Json(JObject([data.o EXCEPT !.comments = v])) : v \in {Undefined, JNumber(5)}}

EntryDamage(data) ==
    {Json(JObject([data.o EXCEPT !.comments =
        JObject([data.o.comments.o EXCEPT ![d] = JNumber(5)])])) :
        d \in DOMAIN data.o.comments.o}
    \cup {Json(JObject([data.o EXCEPT !.comments =
        JObject([data.o.comments.o EXCEPT ![d] = JArray(Append(@.a, JNull))])])) :
        d \in DOMAIN data.o.comments.o}
    \cup {Json(JObject([data.o EXCEPT !.files =
        JObject(SetProperty(data.o.files.o, <<"A">>, v))])) : v \in {JNumber(5), JNull}}

\* the damaged forms of an item that the service wrote (or of no item)
Damage(item) ==
    IF Untampered(item)
    THEN WholeItemDamage \cup FieldDamage(getStorageData(item).data)
                         \cup EntryDamage(getStorageData(item).data)
    ELSE {}

----------------------------------------------------------------------------
(* Initial state: AppProvider freshly mounted, nothing in localStorage *)

Init ==
    /\ store = NoItem
    /\ storageMode = "ok"
    /\ comments = EmptyMap
    /\ currentFile = NoFile
    /\ activeLineNumber = NoLine
    /\ isCommentSummaryOpen = FALSE
    /\ isExportDialogOpen = FALSE
    /\ error = Null
    /\ now = StartOfTime
    /\ made = 0
    /\ loads = 0
    /\ created = {}
    /\ deleted = {}
    /\ heap = [maps |-> <<EmptyMap>>, arrays |-> <<>>]
    /\ editingCommentId = NoComment
    /\ inputText = <<>>
    /\ inputError = Null
    /\ deleteDialogOpen = FALSE
    /\ commentToDelete = NoComment
    /\ onEditCalls = <<>>
    /\ onDeleteCalls = <<>>
    /\ exportStatus = "idle"
    /\ errorMessage = ""
    /\ pendingDownloads = <<>>
    /\ closeTimers = 0
    /\ downloads = <<>>
    /\ rendered = [currentFile |-> NoFile, comments |-> EmptyMap]
    /\ last = [op |-> "init"]

heapVars == <<heap>>

threadVars == <<editingCommentId, inputText, inputError, deleteDialogOpen,
                commentToDelete, onEditCalls, onDeleteCalls>>

exportVars == <<exportStatus, errorMessage, pendingDownloads, closeTimers, downloads>>

renderVars == <<rendered>>

\* what the calls of the services and the session leave alone
componentVars == <<heapVars, threadVars, exportVars, renderVars>>

sessionVars == <<currentFile, activeLineNumber, isCommentSummaryOpen,
                 isExportDialogOpen, error, loads, created, deleted, componentVars>>

\* what the components leave alone
appVars == <<store, storageMode, comments, currentFile, activeLineNumber,
             isCommentSummaryOpen, isExportDialogOpen, error, now, made, loads,
             created, deleted>>

----------------------------------------------------------------------------
(* Environment steps *)

\* the clock advances by a millisecond
Tick ==
    /\ now < StartOfTime + MaxTicks
    /\ now' = now + 1
    /\ last' = [op |-> "tick"]
    /\ UNCHANGED <<store, storageMode, comments, made, sessionVars>>

\* localStorage becomes unavailable, full, or usable again
SetStorageMode(mode) ==
    /\ mode # storageMode
    /\ storageMode' = mode
    /\ last' = [op |-> "storageMode"]
    /\ UNCHANGED <<store, comments, now, made, sessionVars>>

\* something other than the service overwrites the item (as the corrupted-data
\* tests do with localStorage.setItem)
Tamper(item) ==
    /\ item \in Damage(store)
    /\ store' = item
    /\ last' = [op |-> "tamper"]
    /\ UNCHANGED <<storageMode, comments, now, made, sessionVars>>

----------------------------------------------------------------------------
(* Direct calls of CommentService and StorageService, as a caller holding   *)
(* one index makes them                                                     *)

\* createComment, then addCommentToMap with its result
CallCreateComment(lineNumber, text) ==
    /\ made < MaxComments
    /\ LET r == createComment(lineNumber, text, now, made + 1) IN
       /\ comments' = IF r.threw THEN comments ELSE addCommentToMap(comments, r.comment)
       /\ made' = IF r.threw THEN made ELSE made + 1
       /\ last' = IF r.threw THEN [op |-> "createComment", threw |-> TRUE]
                  ELSE [op |-> "createComment", threw |-> FALSE, id |-> r.comment.id,
                        lineNumber |-> lineNumber, text |-> text]
    /\ UNCHANGED <<store, storageMode, now, sessionVars>>

\* addCommentToMap with a record made at an earlier instant
CallAddCommentToMap(lineNumber, createdAt) ==
    /\ made < MaxComments
    /\ lineNumber >= 1
    /\ createdAt \in StartOfTime..now
    /\ LET c == [id |-> generateId(createdAt, made + 1), lineNumber |-> lineNumber,
                 text |-> <<"a">>, createdAt |-> createdAt, updatedAt |-> createdAt] IN
       /\ comments' = addCommentToMap(comments, c)
       /\ last' = [op |-> "addCommentToMap", id |-> c.id]
    /\ made' = made + 1
    /\ UNCHANGED <<store, storageMode, now, sessionVars>>

\* updateComment, then updateCommentInMap with its result
CallUpdateComment(c, text) ==
    /\ c \in AllComments(comments)
    /\ LET r == updateComment(c, text, now) IN
       /\ comments' = IF r.threw THEN comments ELSE updateCommentInMap(comments, r.comment)
       /\ last' = IF r.threw THEN [op |-> "updateComment", threw |-> TRUE]
                  ELSE [op |-> "updateComment", threw |-> FALSE, id |-> c.id,
                        text |-> text]
    /\ UNCHANGED <<store, storageMode, now, made, sessionVars>>

CallDeleteComment(commentId) ==
    /\ commentId \in IdsOf(comments) \cup {UnknownId}
    /\ comments' = deleteComment(comments, commentId)
    /\ last' = [op |-> "deleteComment", id |-> commentId, before |-> MapKeys(comments)]
    /\ UNCHANGED <<store, storageMode, now, made, sessionVars>>

CallGetCommentsForLine(lineNumber) ==
    /\ last' = [op |-> "getCommentsForLine", lineNumber |-> lineNumber,
                result |-> getCommentsForLine(comments, lineNumber)]
    /\ UNCHANGED <<store, storageMode, comments, now, made, sessionVars>>

CallGetAllComments ==
    /\ last' = [op |-> "getAllComments", result |-> getAllComments(comments)]
    /\ UNCHANGED <<store, storageMode, comments, now, made, sessionVars>>

CallSaveComments(fileId) ==
    LET r == saveComments(store, storageMode, fileId, comments) IN
    /\ store' = r.store
    /\ last' = [op |-> "saveComments", fileId |-> fileId, threw |-> r.threw,
                error |-> r.error, setItems |-> r.setItems, warnings |-> r.warnings]
    /\ UNCHANGED <<storageMode, comments, now, made, sessionVars>>

\* saveFileData with a record of the given id and name, uploaded now
CallSaveFileData(fileId, name) ==
    LET fileData == [id |-> fileId, name |-> name, content |-> <<"x">>,
                     lines |-> parseLines(<<"x">>), uploadedAt |-> now]
        r == saveFileData(store, storageMode, fileData)
    IN /\ store' = r.store
       /\ last' = [op |-> "saveFileData", fileId |-> fileId, threw |-> r.threw,
                   error |-> r.error, setItems |-> r.setItems, warnings |-> r.warnings]
       /\ UNCHANGED <<storageMode, comments, now, made, sessionVars>>

\* loadComments; the caller takes the index it returns as its index
CallLoadComments(fileId) ==
    LET r == loadComments(store, fileId) IN
    /\ comments' = IF r.threw THEN comments ELSE r.map
    /\ last' = [op |-> "loadComments", fileId |-> fileId, threw |-> r.threw,
                warnings |-> r.warnings]
    /\ UNCHANGED <<store, storageMode, now, made, sessionVars>>

CallLoadFileData(fileId) ==
    LET r == loadFileData(store, fileId) IN
    /\ last' = [op |-> "loadFileData", fileId |-> fileId, threw |-> r.threw,
                file |-> r.file, warnings |-> r.warnings]
    /\ UNCHANGED <<store, storageMode, comments, now, made, sessionVars>>

CallClearStorage ==
    /\ store' = clearStorage(store)
    /\ last' = [op |-> "clearStorage"]
    /\ UNCHANGED <<storageMode, comments, now, made, sessionVars>>

\* createComment, then addCommentToMap with its result, on a Map the caller
\* holds
HeapAddComment(m, lineNumber, rnd) ==
    /\ Len(heap.maps) < MaxMaps
    /\ m \in 1..Len(heap.maps)
    /\ LET r == createComment(lineNumber, <<"a">>, now, rnd) IN
       /\ ~r.threw
       /\ r.comment.id \notin IdsOf(Deref(heap, m))
       /\ LET added == addCommentToMapOnHeap(heap, m, r.comment) IN
          /\ heap' = added.heap
          /\ last' = [op |-> "addCommentToMap", given |-> m, result |-> added.result]
    /\ UNCHANGED <<appVars, threadVars, exportVars, renderVars>>

\* updateComment, then updateCommentInMap with its result
HeapUpdateComment(m, c, text) ==
    /\ Len(heap.maps) < MaxMaps
    /\ m \in 1..Len(heap.maps)
    /\ c \in AllComments(Deref(heap, m))
    /\ LET r == updateComment(c, text, now + 1) IN
       /\ ~r.threw
       /\ LET updated == updateCommentInMapOnHeap(heap, m, r.comment) IN
          /\ heap' = updated.heap
          /\ last' = [op |-> "updateCommentInMap", given |-> m,
                      result |-> updated.result]
    /\ UNCHANGED <<appVars, threadVars, exportVars, renderVars>>

HeapDeleteComment(m, commentId) ==
    /\ Len(heap.maps) < MaxMaps
    /\ m \in 1..Len(heap.maps)
    /\ LET removed == deleteCommentOnHeap(heap, m, commentId) IN
       /\ heap' = removed.heap
       /\ last' = [op |-> "deleteComment", given |-> m, result |-> removed.result]
    /\ UNCHANGED <<appVars, threadVars, exportVars, renderVars>>

\* calls of the comment index on Map objects that callers hold on to
HeapNext ==
    \/ \E m \in 1..Len(heap.maps), n \in 1..2, rnd \in 1..MaxComments :
          HeapAddComment(m, n, rnd)
    \/ \E m \in 1..Len(heap.maps) :
          \E c \in AllComments(Deref(heap, m)) : HeapUpdateComment(m, c, <<"b">>)
    \/ \E m \in 1..Len(heap.maps) :
          \E id \in IdsOf(Deref(heap, m)) \cup {UnknownId} : HeapDeleteComment(m, id)

HeapSpec == Init /\ [][HeapNext]_vars

----------------------------------------------------------------------------
(* CommentThread with the CommentInput of the comment being edited; the     *)
(* parent passes the comments of one line and applies onEdit and onDelete   *)
(* to its index with the CommentService                                     *)

ThreadLine == 1

\* the comments prop
ThreadComments == MapGetOrEmpty(comments, ThreadLine)

CommentWithId(commentId) == CHOOSE c \in Range(ThreadComments) : c.id = commentId

\* the Edit and Delete buttons are rendered for the comments not being edited
Shown(commentId) ==
    \E c \in Range(ThreadComments) : c.id = commentId /\ c.id # editingCommentId

\* the CommentInput is rendered when a comment of the list is being edited
InputShown == \E c \in Range(ThreadComments) : c.id = editingCommentId

\* the parent's onEdit: updateComment and updateCommentInMap, a throw caught
OnEdit(cm, commentId, text) ==
    LET found == {c \in AllComments(cm) : c.id = commentId} IN
    IF found = {} THEN cm
    ELSE LET r == updateComment(CHOOSE c \in found : TRUE, text, now) IN
         IF r.threw THEN cm ELSE updateCommentInMap(cm, r.comment)

\* the CommentInput mounts with the text of existingComment
HandleEditClick(commentId) ==
    /\ Shown(commentId)
    /\ editingCommentId' = commentId
    /\ inputText' = CommentWithId(commentId).text
    /\ inputError' = Null
    /\ last' = [op |-> "handleEditClick", id |-> commentId]
    /\ UNCHANGED <<appVars, heapVars, exportVars, renderVars, deleteDialogOpen, commentToDelete,
                   onEditCalls, onDeleteCalls>>

\* CommentInput.handleChange
HandleChange(text) ==
    /\ InputShown
    /\ text # inputText
    /\ inputText' = text
    /\ inputError' = Null
    /\ last' = [op |-> "handleChange"]
    /\ UNCHANGED <<appVars, heapVars, exportVars, renderVars, editingCommentId, deleteDialogOpen,
                   commentToDelete, onEditCalls, onDeleteCalls>>

\* faulty variant: the text is handed to onEdit on cancel
HandleEditCancelSaving ==
    /\ InputShown
    /\ Len(onEditCalls) < MaxCalls
    /\ onEditCalls' = Append(onEditCalls, [commentId |-> editingCommentId,
                                           text |-> inputText])
    /\ comments' = OnEdit(comments, editingCommentId, inputText)
    /\ editingCommentId' = NoComment
    /\ inputText' = <<>>
    /\ inputError' = Null
    /\ last' = [op |-> "handleEditCancel", id |-> editingCommentId]
    /\ UNCHANGED <<store, storageMode, currentFile, activeLineNumber,
                   isCommentSummaryOpen, isExportDialogOpen, error, now, made, loads,
                   created, deleted, heapVars, exportVars, renderVars, deleteDialogOpen, commentToDelete,
                   onDeleteCalls>>

\* CommentInput.handleCancel, then CommentThread.handleEditCancel
HandleEditCancel ==
    /\ InputShown
    /\ editingCommentId' = NoComment
    /\ inputText' = <<>>
    /\ inputError' = Null
    /\ last' = [op |-> "handleEditCancel", id |-> editingCommentId]
    /\ UNCHANGED <<appVars, heapVars, exportVars, renderVars, deleteDialogOpen, commentToDelete,
                   onEditCalls, onDeleteCalls>>

\* CommentInput.handleSubmit: a blank text is refused there; any other goes
\* to CommentThread.handleEditSubmit, which calls onEdit and leaves editing
HandleSubmit ==
    /\ InputShown
    /\ IF Len(Trim(inputText)) = 0
       THEN /\ inputError' = "Comment cannot be empty"
            /\ last' = [op |-> "handleSubmit", id |-> editingCommentId]
            /\ UNCHANGED <<comments, editingCommentId, inputText, onEditCalls>>
       ELSE /\ Len(onEditCalls) < MaxCalls
            /\ onEditCalls' = Append(onEditCalls, [commentId |-> editingCommentId,
                                                   text |-> inputText])
            /\ comments' = OnEdit(comments, editingCommentId, inputText)
            /\ editingCommentId' = NoComment
            /\ inputText' = <<>>
            /\ inputError' = Null
            /\ last' = [op |-> "handleEditSubmit", id |-> editingCommentId,
                        text |-> inputText]
    /\ UNCHANGED <<store, storageMode, currentFile, activeLineNumber,
                   isCommentSummaryOpen, isExportDialogOpen, error, now, made, loads,
                   created, deleted, heapVars, exportVars, renderVars, deleteDialogOpen, commentToDelete,
                   onDeleteCalls>>

\* faulty variant: the comment is deleted on the request
HandleDeleteClickDeleting(commentId) ==
    /\ Shown(commentId)
    /\ Len(onDeleteCalls) < MaxCalls
    /\ onDeleteCalls' = Append(onDeleteCalls, commentId)
    /\ comments' = deleteComment(comments, commentId)
    /\ commentToDelete' = commentId
    /\ deleteDialogOpen' = TRUE
    /\ last' = [op |-> "handleDeleteClick", id |-> commentId]
    /\ UNCHANGED <<store, storageMode, currentFile, activeLineNumber,
                   isCommentSummaryOpen, isExportDialogOpen, error, now, made, loads,
                   created, deleted, heapVars, exportVars, renderVars, editingCommentId, inputText, inputError,
                   onEditCalls>>

HandleDeleteClick(commentId) ==
    /\ Shown(commentId)
    /\ commentToDelete' = commentId
    /\ deleteDialogOpen' = TRUE
    /\ last' = [op |-> "handleDeleteClick", id |-> commentId]
    /\ UNCHANGED <<appVars, heapVars, exportVars, renderVars, editingCommentId, inputText, inputError,
                   onEditCalls, onDeleteCalls>>

\* the Delete button of the dialog; the parent's onDelete is deleteComment.
\* When the comment edited is the one deleted, its CommentInput unmounts.
ConfirmDelete ==
    /\ deleteDialogOpen
    /\ IF commentToDelete # NoComment
       THEN /\ Len(onDeleteCalls) < MaxCalls
            /\ onDeleteCalls' = Append(onDeleteCalls, commentToDelete)
            /\ comments' = deleteComment(comments, commentToDelete)
            /\ deleteDialogOpen' = FALSE
            /\ commentToDelete' = NoComment
       ELSE UNCHANGED <<onDeleteCalls, comments, deleteDialogOpen, commentToDelete>>
    /\ last' = [op |-> "confirmDelete"]
    /\ UNCHANGED <<store, storageMode, currentFile, activeLineNumber,
                   isCommentSummaryOpen, isExportDialogOpen, error, now, made, loads,
                   created, deleted, heapVars, exportVars, renderVars, editingCommentId, inputText, inputError,
                   onEditCalls>>

\* the Cancel button of the dialog
CancelDelete ==
    /\ deleteDialogOpen
    /\ deleteDialogOpen' = FALSE
    /\ commentToDelete' = NoComment
    /\ last' = [op |-> "cancelDelete"]
    /\ UNCHANGED <<appVars, heapVars, exportVars, renderVars, editingCommentId, inputText, inputError,
                   onEditCalls, onDeleteCalls>>

\* the dialog closes itself (Escape, a click outside): onOpenChange(false)
DismissDeleteDialog ==
    /\ deleteDialogOpen
    /\ deleteDialogOpen' = FALSE
    /\ last' = [op |-> "onOpenChange"]
    /\ UNCHANGED <<appVars, heapVars, exportVars, renderVars, editingCommentId, inputText, inputError,
                   commentToDelete, onEditCalls, onDeleteCalls>>

\* one CommentThread, on the line whose comments the parent creates
ThreadNext ==
    \/ \E text \in {<<"a">>} : CallCreateComment(ThreadLine, text)
    \/ \E id \in IdsOf(comments) : HandleEditClick(id)
    \/ \E text \in {<<>>, <<" ">>, <<"b", " ">>} : HandleChange(text)
    \/ HandleSubmit
    \/ HandleEditCancel
    \/ \E id \in IdsOf(comments) : HandleDeleteClick(id)
    \/ ConfirmDelete
    \/ CancelDelete
    \/ DismissDeleteDialog

ThreadSpec == Init /\ [][ThreadNext]_vars

----------------------------------------------------------------------------
(* ExportDialog, mounted by App while a document is loaded and shown while  *)
(* isExportDialogOpen; its comments prop is the live index                  *)

TotalComments(cm) == Len(Flatten(cm))

\* the disabled attribute of the Download button
DownloadDisabledNever == FALSE

DownloadDisabled ==
    TotalComments(comments) = 0 \/ exportStatus \in {"success", "loading"}

\* handleDownload up to its await: the new status and message, and whether
\* the call goes on to export the comments it was rendered with
handleDownload(cm) ==
    IF TotalComments(cm) = 0
    THEN [exportStatus |-> "error",
          errorMessage |-> "Cannot export: No comments available.", goesOn |-> FALSE]
    ELSE [exportStatus |-> "loading", errorMessage |-> errorMessage, goesOn |-> TRUE]

\* a click on the Download button: a disabled button dispatches nothing
DownloadClick ==
    /\ isExportDialogOpen
    /\ Len(pendingDownloads) + Len(downloads) < MaxCalls
    /\ IF DownloadDisabled
       THEN /\ last' = [op |-> "downloadClick", handled |-> FALSE]
            /\ UNCHANGED <<exportStatus, errorMessage, pendingDownloads>>
       ELSE LET r == handleDownload(comments) IN
            /\ exportStatus' = r.exportStatus
            /\ errorMessage' = r.errorMessage
            /\ pendingDownloads' = IF r.goesOn THEN Append(pendingDownloads, comments)
                                   ELSE pendingDownloads
            /\ last' = [op |-> "downloadClick", handled |-> TRUE]
    /\ UNCHANGED <<appVars, heapVars, threadVars, renderVars, closeTimers, downloads>>

\* handleDownload after its await: the export is generated from the comments
\* captured and handed to downloadAsFile; either may throw
DownloadResume(throws) ==
    /\ pendingDownloads # <<>>
    /\ pendingDownloads' = Tail(pendingDownloads)
    /\ IF throws
       THEN /\ exportStatus' = "error"
            /\ errorMessage' = "Failed to export comments."
            /\ UNCHANGED <<downloads, closeTimers>>
       ELSE /\ downloads' = Append(downloads, TotalComments(Head(pendingDownloads)))
            /\ exportStatus' = "success"
            /\ closeTimers' = closeTimers + 1
            /\ UNCHANGED errorMessage
    /\ last' = [op |-> "downloadResume", threw |-> throws]
    /\ UNCHANGED <<appVars, heapVars, threadVars, renderVars>>

\* the timeout armed on success: setExportStatus('idle'); onClose()
AutoClose ==
    /\ closeTimers > 0
    /\ closeTimers' = closeTimers - 1
    /\ exportStatus' = "idle"
    /\ isExportDialogOpen' = FALSE
    /\ last' = [op |-> "autoClose"]
    /\ UNCHANGED <<store, storageMode, comments, currentFile, activeLineNumber,
                   isCommentSummaryOpen, error, now, made, loads, created, deleted,
                   heapVars, threadVars, renderVars, errorMessage, pendingDownloads,
                   downloads>>

\* handleClose: by the Cancel button (disabled while loading or on success)
\* or by the dialog itself through handleOpenChange(false)
HandleClose(byButton) ==
    /\ isExportDialogOpen
    /\ byButton => exportStatus \notin {"success", "loading"}
    /\ exportStatus' = "idle"
    /\ errorMessage' = ""
    /\ isExportDialogOpen' = FALSE
    /\ last' = [op |-> "handleClose"]
    /\ UNCHANGED <<store, storageMode, comments, currentFile, activeLineNumber,
                   isCommentSummaryOpen, error, now, made, loads, created, deleted,
                   heapVars, threadVars, renderVars, pendingDownloads, closeTimers,
                   downloads>>

\* calls of the comment index alone
IndexNext ==
    \/ Tick
    \/ \E n \in LineNumbers, text \in Texts : CallCreateComment(n, text)
    \/ \E n \in LineNumbers, t \in Times : CallAddCommentToMap(n, t)
    \/ \E c \in AllComments(comments), text \in Texts : CallUpdateComment(c, text)
    \/ \E id \in IdsOf(comments) \cup {UnknownId} : CallDeleteComment(id)
    \/ \E n \in LineNumbers : CallGetCommentsForLine(n)
    \/ CallGetAllComments

IndexSpec == Init /\ [][IndexNext]_vars

\* calls of the comment index and of the storage service, with the stored
\* item open to damage
ServiceNext ==
    \/ \E item \in Damage(store) : Tamper(item)
    \/ \E n \in LineNumbers, text \in StoredTexts : CallCreateComment(n, text)
    \/ \E c \in AllComments(comments), text \in StoredTexts : CallUpdateComment(c, text)
    \/ \E id \in IdsOf(comments) \cup {UnknownId} : CallDeleteComment(id)
    \/ \E d \in ApiFileIds : CallSaveComments(d)
    \/ \E d \in ApiFileIds : CallLoadComments(d)
    \/ \E d \in ApiFileIds : CallLoadFileData(d)
    \/ CallClearStorage

ServiceSpec == Init /\ [][ServiceNext]_vars

\* an index built over time, records made earlier included, and saved
OrderNext ==
    \/ Tick
    \/ \E n \in LineNumbers, text \in {<<"a">>} : CallCreateComment(n, text)
    \/ \E n \in LineNumbers, t \in Times : CallAddCommentToMap(n, t)
    \/ \E id \in IdsOf(comments) : CallDeleteComment(id)
    \/ \E d \in {<<"A">>, <<"B">>} : CallSaveComments(d)
    \/ \E d \in {<<"A">>, <<"B">>} : CallLoadComments(d)

OrderSpec == Init /\ [][OrderNext]_vars

\* calls that save and read documents and comment lists, with localStorage
\* failing at times and the stored item open to damage
RegistryNext ==
    \/ \E mode \in StorageModes : SetStorageMode(mode)
    \/ \E item \in Damage(store) : Tamper(item)
    \/ \E text \in {<<"a">>} : CallCreateComment(1, text)
    \/ \E d \in ApiFileIds : CallSaveComments(d)
    \/ \E d \in ApiFileIds, name \in FileNames : CallSaveFileData(d, name)
    \/ \E d \in ApiFileIds : CallLoadFileData(d)
    \/ CallClearStorage

RegistrySpec == Init /\ [][RegistryNext]_vars

\* the stored item is replaced by one that getStorageData rejects
Corrupt(item) ==
    /\ ~IsStorageData(item)
    /\ Tamper(item)

\* saveFileData, saveComments and clearStorage over an item that is absent
\* or was corrupted, with localStorage failing at times
PointerNext ==
    \/ \E mode \in StorageModes : SetStorageMode(mode)
    \/ \E item \in Damage(store) : Corrupt(item)
    \/ \E text \in {<<"a">>} : CallCreateComment(1, text)
    \/ \E d \in ApiFileIds : CallSaveComments(d)
    \/ \E d \in ApiFileIds, name \in FileNames : CallSaveFileData(d, name)
    \/ CallClearStorage

PointerSpec == Init /\ [][PointerNext]_vars

----------------------------------------------------------------------------
(* AppProvider: each callback runs to completion on the state it was        *)
(* rendered with; `last` records whether it threw, how many times it called *)
(* localStorage.setItem(STORAGE_KEY, ...) and how many "Storage warning"    *)
(* toasts it raised                                                         *)

Outcome(op, threw, setItems, storageWarnings) ==
    [op |-> op, threw |-> threw, setItems |-> setItems,
     storageWarnings |-> storageWarnings]

LoadFile(name, content) ==
    /\ loads < MaxLoads
    /\ IF ~validateFile(name)
       THEN /\ error' = "Invalid file type. Only .md and .markdown files are supported."
            /\ last' = Outcome("loadFile", TRUE, 0, 0)
            /\ UNCHANGED <<store, comments, currentFile, activeLineNumber, loads,
                           created, deleted>>
       ELSE LET fileData == [id |-> generateFileId(name, now, loads + 1),
                             name |-> name, content |-> content,
                             lines |-> parseLines(content), uploadedAt |-> now]
                saved == saveFileData(store, storageMode, fileData)
                loaded == loadComments(saved.store, fileData.id)
            IN /\ store' = saved.store
               /\ loads' = loads + 1
               /\ IF loaded.threw
                  THEN /\ error' = "Failed to load file"
                       /\ UNCHANGED <<comments, currentFile, activeLineNumber,
                                      created, deleted>>
                  ELSE /\ error' = Null
                       /\ currentFile' = fileData
                       /\ comments' = loaded.map
                       /\ activeLineNumber' = NoLine
                       /\ created' = {}
                       /\ deleted' = {}
               /\ last' = Outcome("loadFile", loaded.threw, saved.setItems,
                                  IF saved.threw THEN 1 ELSE 0)
    /\ UNCHANGED <<storageMode, now, made>>
    /\ UNCHANGED <<isCommentSummaryOpen, isExportDialogOpen, componentVars>>

AddComment(lineNumber, text) ==
    /\ made < MaxComments
    /\ LET r == createComment(lineNumber, text, now, made + 1)
       IN
       IF currentFile = NoFile
       THEN /\ error' = "No file loaded"
            /\ last' = Outcome("addComment", TRUE, 0, 0)
            /\ UNCHANGED <<store, comments, activeLineNumber, made, created>>
       ELSE IF r.threw
       THEN /\ error' = r.error
            /\ last' = Outcome("addComment", TRUE, 0, 0)
            /\ UNCHANGED <<store, comments, activeLineNumber, made, created>>
       ELSE LET newComments == addCommentToMap(comments, r.comment)
                saved == saveComments(store, storageMode, currentFile.id, newComments)
            IN /\ store' = saved.store
               /\ comments' = newComments
               /\ activeLineNumber' = NoLine
               /\ error' = Null
               /\ made' = made + 1
               /\ created' = created \cup {r.comment.id}
               /\ last' = Outcome("addComment", FALSE, saved.setItems,
                                  IF saved.threw THEN 1 ELSE 0) @@ [id |-> r.comment.id]
    /\ UNCHANGED <<storageMode, currentFile, now, loads, deleted>>
    /\ UNCHANGED <<isCommentSummaryOpen, isExportDialogOpen, componentVars>>

\* faulty variant: with no match, the first record of the index is taken
FindCommentOrFirst(cm, commentId) ==
    LET hits == {c \in Range(Flatten(cm)) : c.id = commentId} IN
    IF hits # {} THEN <<CHOOSE c \in hits : TRUE>>
    ELSE IF Flatten(cm) = <<>> THEN <<>> ELSE <<Flatten(cm)[1]>>

\* the forEach/find of updateComment: the match in the last list that has one,
\* as a one-element sequence, or the empty sequence for null
FindComment(cm, commentId) ==
    LET hits == {i \in 1..Len(cm) : \E c \in Range(cm[i].list) : c.id = commentId} IN
    IF hits = {} THEN <<>>
    ELSE LET i == CHOOSE j \in hits : \A k \in hits : k <= j
             at == {j \in 1..Len(cm[i].list) : cm[i].list[j].id = commentId}
         IN <<cm[i].list[CHOOSE j \in at : \A k \in at : j <= k]>>

UpdateComment(commentId, text) ==
    /\ LET found == FindComment(comments, commentId)
       IN
       IF currentFile = NoFile
       THEN /\ error' = "No file loaded"
            /\ last' = Outcome("updateComment", TRUE, 0, 0)
            /\ UNCHANGED <<store, comments>>
       ELSE IF found = <<>>
       THEN /\ error' = "Comment not found"
            /\ last' = Outcome("updateComment", TRUE, 0, 0)
            /\ UNCHANGED <<store, comments>>
       ELSE LET r == updateComment(found[1], text, now) IN
            IF r.threw
            THEN /\ error' = r.error
                 /\ last' = Outcome("updateComment", TRUE, 0, 0)
                 /\ UNCHANGED <<store, comments>>
            ELSE LET newComments == updateCommentInMap(comments, r.comment)
                     saved == saveComments(store, storageMode, currentFile.id,
                                           newComments)
                 IN /\ store' = saved.store
                    /\ comments' = newComments
                    /\ error' = Null
                    /\ last' = Outcome("updateComment", FALSE, saved.setItems,
                                       IF saved.threw THEN 1 ELSE 0)
    /\ UNCHANGED <<storageMode, currentFile, activeLineNumber, now, made, loads,
                   created, deleted>>
    /\ UNCHANGED <<isCommentSummaryOpen, isExportDialogOpen, componentVars>>

DeleteComment(commentId) ==
    /\ IF currentFile = NoFile
       THEN /\ error' = "No file loaded"
            /\ last' = Outcome("deleteComment", TRUE, 0, 0)
            /\ UNCHANGED <<store, comments, deleted>>
       ELSE LET newComments == deleteComment(comments, commentId)
                saved == saveComments(store, storageMode, currentFile.id, newComments)
            IN /\ store' = saved.store
               /\ comments' = newComments
               /\ error' = Null
               /\ deleted' = deleted \cup ({commentId} \cap IdsOf(comments))
               /\ last' = Outcome("deleteComment", FALSE, saved.setItems,
                                  IF saved.threw THEN 1 ELSE 0)
    /\ UNCHANGED <<storageMode, currentFile, activeLineNumber, now, made, loads,
                   created>>
    /\ UNCHANGED <<isCommentSummaryOpen, isExportDialogOpen, componentVars>>

SetActiveLineNumber(n) ==
    /\ currentFile # NoFile
    /\ n # activeLineNumber
    /\ activeLineNumber' = n
    /\ last' = [op |-> "setActiveLineNumber"]
    /\ UNCHANGED <<store, storageMode, comments, currentFile, error, now, made, loads,
                   created, deleted>>
    /\ UNCHANGED <<isCommentSummaryOpen, isExportDialogOpen, componentVars>>

SetCommentSummaryOpen(open) ==
    /\ open # isCommentSummaryOpen
    /\ isCommentSummaryOpen' = open
    /\ last' = [op |-> "setCommentSummaryOpen"]
    /\ UNCHANGED <<store, storageMode, comments, currentFile, activeLineNumber,
                   isExportDialogOpen, error, now, made, loads, created, deleted,
                   componentVars>>

SetExportDialogOpen(open) ==
    /\ open # isExportDialogOpen
    /\ isExportDialogOpen' = open
    /\ last' = [op |-> "setExportDialogOpen"]
    /\ UNCHANGED <<store, storageMode, comments, currentFile, activeLineNumber,
                   isCommentSummaryOpen, error, now, made, loads, created, deleted,
                   componentVars>>

ClearError ==
    /\ error # Null
    /\ error' = Null
    /\ last' = [op |-> "clearError"]
    /\ UNCHANGED <<store, storageMode, comments, currentFile, activeLineNumber, now,
                   made, loads, created, deleted>>
    /\ UNCHANGED <<isCommentSummaryOpen, isExportDialogOpen, componentVars>>

ClearAllData ==
    /\ store' = clearStorage(store)
    /\ currentFile' = NoFile
    /\ comments' = EmptyMap
    /\ activeLineNumber' = NoLine
    /\ isCommentSummaryOpen' = FALSE
    /\ isExportDialogOpen' = FALSE
    /\ error' = Null
    /\ created' = {}
    /\ deleted' = {}
    /\ last' = [op |-> "clearAllData",
                before |-> [item |-> store # NoItem, file |-> currentFile # NoFile,
                            comments |-> comments # EmptyMap,
                            line |-> activeLineNumber # NoLine,
                            dialogs |-> isCommentSummaryOpen /\ isExportDialogOpen]]
    /\ UNCHANGED <<storageMode, now, made, loads, componentVars>>

Next ==
    \/ \E mode \in StorageModes : SetStorageMode(mode)
    \/ \E name \in FileNames, content \in Contents : LoadFile(name, content)
    \/ \E n \in LineNumbers, text \in Texts : AddComment(n, text)
    \/ \E id \in IdsOf(comments) \cup {UnknownId}, text \in Texts : UpdateComment(id, text)
    \/ \E id \in IdsOf(comments) \cup {UnknownId} : DeleteComment(id)
    \/ \E n \in {NoLine, Line(1)} : SetActiveLineNumber(n)
    \/ ClearError
    \/ ClearAllData

Spec == Init /\ [][Next]_vars

\* the session with its two dialogs, on one comment text and one line, with
\* the stored item open to damage
UiNext ==
    \/ \E mode \in StorageModes : SetStorageMode(mode)
    \/ \E item \in Damage(store) : Tamper(item)
    \/ \E name \in FileNames, content \in Contents : LoadFile(name, content)
    \/ \E text \in {<<"a">>} : AddComment(1, text)
    \/ \E id \in IdsOf(comments) : DeleteComment(id)
    \/ \E n \in {NoLine, Line(1)} : SetActiveLineNumber(n)
    \/ \E open \in BOOLEAN : SetCommentSummaryOpen(open)
    \/ \E open \in BOOLEAN : SetExportDialogOpen(open)
    \/ ClearAllData

UiSpec == Init /\ [][UiNext]_vars

\* React renders: the callbacks made by this render hold the currentFile and
\* the comments set so far (useCallback with [currentFile, comments])
Render ==
    /\ rendered # [currentFile |-> currentFile, comments |-> comments]
    /\ rendered' = [currentFile |-> currentFile, comments |-> comments]
    /\ last' = [op |-> "render"]
    /\ UNCHANGED <<appVars, heapVars, threadVars, exportVars>>

\* addComment as the callback of the last render runs it: on the currentFile
\* and the comments it captured, which a call made earlier in the same event
\* has not changed
BatchedAddComment(lineNumber, text) ==
    /\ made < MaxComments
    /\ LET r == createComment(lineNumber, text, now, made + 1)
       IN
       IF rendered.currentFile = NoFile
       THEN /\ error' = "No file loaded"
            /\ last' = Outcome("addComment", TRUE, 0, 0)
            /\ UNCHANGED <<store, comments, activeLineNumber, made, created>>
       ELSE IF r.threw
       THEN /\ error' = r.error
            /\ last' = Outcome("addComment", TRUE, 0, 0)
            /\ UNCHANGED <<store, comments, activeLineNumber, made, created>>
       ELSE LET newComments == addCommentToMap(rendered.comments, r.comment)
                saved == saveComments(store, storageMode, rendered.currentFile.id,
                                      newComments)
            IN /\ store' = saved.store
               /\ comments' = newComments
               /\ activeLineNumber' = NoLine
               /\ error' = Null
               /\ made' = made + 1
               /\ created' = created \cup {r.comment.id}
               /\ last' = Outcome("addComment", FALSE, saved.setItems,
                                  IF saved.threw THEN 1 ELSE 0) @@ [id |-> r.comment.id]
    /\ UNCHANGED <<storageMode, currentFile, now, loads, deleted>>
    /\ UNCHANGED <<isCommentSummaryOpen, isExportDialogOpen, componentVars>>

\* the session with its renders apart from its calls: several calls can be
\* made between two renders
BatchNext ==
    \/ \E mode \in StorageModes : SetStorageMode(mode)
    \/ \E name \in FileNames, content \in Contents : LoadFile(name, content)
    \/ \E n \in LineNumbers, text \in Texts : BatchedAddComment(n, text)
    \/ Render

BatchSpec == Init /\ [][BatchNext]_vars

\* the export dialog over an index that the parent fills and empties
ExportNext ==
    \/ \E text \in {<<"a">>} : CallCreateComment(1, text)
    \/ \E id \in IdsOf(comments) : CallDeleteComment(id)
    \/ SetExportDialogOpen(TRUE)
    \/ DownloadClick
    \/ \E throws \in BOOLEAN : DownloadResume(throws)
    \/ AutoClose
    \/ \E byButton \in BOOLEAN : HandleClose(byButton)

ExportSpec == Init /\ [][ExportNext]_vars

----------------------------------------------------------------------------
(* Properties of the storage service (ServiceSpec)                          *)

\* what loadComments(fileId) makes of the stored item, compared with the live
\* index: same line keys, same number of records per line, every live record
\* found under its line with the same fields
RoundTripsUnder(fileId) ==
    LET r == loadComments(store, fileId) IN
    /\ ~r.threw
    /\ MapKeys(r.map) = MapKeys(comments)
    /\ \A n \in MapKeys(comments) :
          /\ Len(MapGetOrEmpty(r.map, n)) = Len(MapGetOrEmpty(comments, n))
          /\ Range(MapGetOrEmpty(comments, n)) \subseteq Range(MapGetOrEmpty(r.map, n))

\* createComment's record as it stands in the index after addCommentToMap
CreatedAsAsked ==
    (last.op = "createComment" /\ ~last.threw) =>
        \E c \in Range(MapGetOrEmpty(comments, last.lineNumber)) :
            /\ c.id = last.id
            /\ c.lineNumber = last.lineNumber
            /\ c.text = Trim(last.text)
            /\ c.createdAt = now
            /\ c.updatedAt = now

\* C1: for every document id, a comment made by createComment and put in the
\* index by addCommentToMap is in the index with the trimmed text and the
\* instant of its creation, and once saveComments(fileId) has returned,
\* loadComments(fileId) gives an index with the same line keys, the same
\* number of records per line and every saved record unchanged.
C1_RoundTrip ==
    /\ CreatedAsAsked
    /\ (last.op = "saveComments" /\ ~last.threw) => RoundTripsUnder(last.fileId)

\* the raw list stored for a document, Undefined when the payload has none
StoredList(item, fileId) ==
    IF /\ item.k = "json"
       /\ item.v.t = "object"
       /\ item.v.o.comments.t = "object"
       /\ fileId \in DOMAIN item.v.o.comments.o
    THEN item.v.o.comments.o[fileId]
    ELSE Undefined

\* the comment ids that loadComments(fileId) returns
ReadIds(item, fileId) == IdsOf(loadComments(item, fileId).map)

\* C3: the comment ids that loadComments(B) returns grow only by a
\* saveComments(B, index) call, and then only by ids of the index it was
\* given; so whatever loadComments(B) returns was written under B, and an id
\* written only under another document A is never returned for B.
C3_FileIsolation ==
    [][\A d \in ApiFileIds :
          \/ store' = store
          \/ ReadIds(store', d) \subseteq
              ReadIds(store, d) \cup
              (IF last'.op = "saveComments" /\ last'.fileId = d
               THEN IdsOf(comments) ELSE {})]_vars

\* two documents hold disjoint non-empty sets of comments, both readable
C3_Witness ==
    /\ ReadIds(store, <<"A">>) # {}
    /\ ReadIds(store, <<"B">>) # {}
    /\ ReadIds(store, <<"A">>) \cap ReadIds(store, <<"B">>) = {}
    /\ last.op = "saveComments"

\* C4 (as amended): a successful saveComments(A, index) leaves what
\* loadComments(B) returns unchanged for every other document B, and when the
\* payload it found was absent or passed the structural check, the stored list
\* of every other document is exactly what it was.
C4_WriteFrame ==
    [][(last'.op = "saveComments" /\ ~last'.threw) =>
          \A d \in ApiFileIds \ {last'.fileId} :
              /\ loadComments(store', d).threw = loadComments(store, d).threw
              /\ loadComments(store', d).map = loadComments(store, d).map
              /\ getStorageData(store).warnings = 0 =>
                     StoredList(store', d) = StoredList(store, d)]_vars

\* C4 (as claimed): in every state of the store, a successful
\* saveComments(A, index) leaves the stored list of every other document
\* exactly as it was.
C4_WriteFrameAnyPayload ==
    [][(last'.op = "saveComments" /\ ~last'.threw) =>
          \A d \in ApiFileIds \ {last'.fileId} :
              StoredList(store', d) = StoredList(store, d)]_vars

\* a save under A has returned and B's stored list, a different one, is there
C4_Witness ==
    /\ last.op = "saveComments" /\ ~last.threw /\ last.fileId = <<"A">>
    /\ StoredList(store, <<"B">>).t = "array"
    /\ StoredList(store, <<"B">>).a # <<>>
    /\ StoredList(store, <<"B">>) # StoredList(store, <<"A">>)

\* the payload as a whole is one that getStorageData does not accept
Unusable(item) == item = Text("") \/ getStorageData(item).warnings > 0

\* the payload is accepted but its entry for fileId is not a list of objects
BadCommentsEntry(item, fileId) ==
    /\ ~Unusable(item) /\ item.k = "json"
    /\ StoredList(item, fileId) # Undefined
    /\ \/ StoredList(item, fileId).t # "array"
       \/ \E i \in 1..Len(StoredList(item, fileId).a) :
             StoredList(item, fileId).a[i].t # "object"

\* the payload is accepted but its entry for fileId is not an object
BadFileEntry(item, fileId) ==
    /\ ~Unusable(item) /\ item.k = "json"
    /\ fileId \in DOMAIN item.v.o.files.o
    /\ item.v.o.files.o[fileId].t # "object"

\* C5: whenever the payload is unusable or its entry for the document has the
\* wrong shape, loadComments returns an empty index and loadFileData returns
\* null, and neither throws.
C5_ReadNeverThrows ==
    /\ (last.op = "loadComments"
        /\ (Unusable(store) \/ BadCommentsEntry(store, last.fileId))) =>
           (~last.threw /\ comments = EmptyMap)
    /\ (last.op = "loadFileData"
        /\ (Unusable(store) \/ BadFileEntry(store, last.fileId))) =>
           (~last.threw /\ last.file = JNull)

\* C6: a loadComments call raises the corrupted-data warning once when the
\* payload is unusable (unparsable, the empty string, not an object, or with
\* version, files or comments missing or mistyped) and not at all otherwise.
C6_WarningCount ==
    last.op = "loadComments" =>
        last.warnings = (IF Unusable(store) THEN 1 ELSE 0)

\* C7: every key of the index has a non-empty list, no key occurs twice, and
\* getCommentsForLine is non-empty exactly for the keys; so a line whose only
\* comment was deleted is no key any more.
C7_Presence ==
    /\ \A i \in 1..Len(comments) : comments[i].list # <<>>
    /\ \A i, j \in 1..Len(comments) : comments[i].line = comments[j].line => i = j
    /\ \A n \in LineNumbers :
          MapHas(comments, n) <=> getCommentsForLine(comments, n) # <<>>
    /\ last.op = "deleteComment" => last.id \notin IdsOf(comments)

\* deleteComment took the only comment of one line while another line kept its
C7_Witness ==
    /\ last.op = "deleteComment"
    /\ MapKeys(comments) # last.before
    /\ comments # EmptyMap

----------------------------------------------------------------------------
(* Properties of the AppProvider session (Spec)                             *)

EmptyTextError == "Comment text cannot be empty or whitespace-only"

\* the step failed: it threw, reported an error, wrote nothing and left the
\* live index as it was
Rejected ==
    /\ last'.threw
    /\ error' # Null
    /\ last'.setItems = 0
    /\ store' = store
    /\ comments' = comments

\* C2: an addComment call whose text trims to nothing or whose line number is
\* below 1, and an updateComment call whose new text trims to nothing, fails
\* with an error, calls setItem not once, and leaves the stored item and the
\* live index exactly as they were.
C2_RejectionLeavesState ==
    [][/\ \A n \in LineNumbers, text \in Texts :
             ((Trim(text) = <<>> \/ n < 1) /\ last'.op = "addComment"
              /\ AddComment(n, text)) => Rejected
       /\ \A id \in IdsOf(comments) \cup {UnknownId}, text \in Texts :
             (Trim(text) = <<>> /\ last'.op = "updateComment"
              /\ UpdateComment(id, text)) => Rejected]_vars

\* addComment has just refused an empty text on a document that has comments
\* in the index and in the store
C2_Witness ==
    /\ last.op = "addComment" /\ last.threw
    /\ error = EmptyTextError
    /\ comments # EmptyMap
    /\ ReadIds(store, currentFile.id) # {}

\* C8: on a loaded document no two records of the live index share an id,
\* and the ids in the live index are exactly those that successful addComment
\* calls created less those that deleteComment calls removed.
C8_NoIdLostOrDuplicated ==
    currentFile # NoFile =>
        /\ Cardinality(IdsOf(comments)) = Len(Flatten(comments))
        /\ IdsOf(comments) = created \ deleted

\* two comments were added and one of them deleted
C8_Witness ==
    /\ currentFile # NoFile
    /\ Cardinality(created) = 2
    /\ Cardinality(created \cap deleted) = 1
    /\ last.op = "deleteComment"

----------------------------------------------------------------------------
(* Properties of the comment index (IndexSpec)                              *)

IsAscending(s) == \A i, j \in 1..Len(s) : i < j => s[i].createdAt <= s[j].createdAt

\* where record c stands in s
PositionIn(s, c) == CHOOSE i \in 1..Len(s) : s[i] = c

\* res holds the records of stored, each once, ascending by createdAt, and
\* records with the same createdAt stand in the order they have in stored
IsStableSortOf(res, stored) ==
    /\ Len(res) = Len(stored)
    /\ Range(res) = Range(stored)
    /\ Cardinality(Range(res)) = Len(res)
    /\ IsAscending(res)
    /\ \A i, j \in 1..Len(stored) :
          (i < j /\ stored[i].createdAt = stored[j].createdAt) =>
              PositionIn(res, stored[i]) < PositionIn(res, stored[j])

\* C9: getCommentsForLine returns exactly the records stored under the line,
\* ascending by createdAt, equal instants in stored order; getAllComments
\* returns every record of the index once, ascending by createdAt.
C9_SortOnRead ==
    /\ last.op = "getCommentsForLine" =>
           IsStableSortOf(last.result, MapGetOrEmpty(comments, last.lineNumber))
    /\ last.op = "getAllComments" =>
           IsStableSortOf(last.result, Flatten(comments))

\* a line's list is stored newest first and was read oldest first
C9_Witness ==
    /\ last.op = "getCommentsForLine"
    /\ Len(last.result) = 2
    /\ last.result # MapGetOrEmpty(comments, last.lineNumber)

\* C10: updateComment followed by updateCommentInMap keeps the record's id,
\* lineNumber and createdAt, sets its text to the trimmed new text and its
\* updatedAt to an instant not before createdAt, and leaves every other
\* record, every line key and every list position as it was.
C10_UpdatePreservesIdentity ==
    [][(last'.op = "updateComment" /\ ~last'.threw) =>
          /\ Len(comments') = Len(comments)
          /\ \A i \in 1..Len(comments) :
                /\ comments'[i].line = comments[i].line
                /\ Len(comments'[i].list) = Len(comments[i].list)
                /\ \A j \in 1..Len(comments[i].list) :
                      LET old == comments[i].list[j]
                          new == comments'[i].list[j]
                      IN IF old.id = last'.id
                         THEN /\ new.id = old.id
                              /\ new.lineNumber = old.lineNumber
                              /\ new.createdAt = old.createdAt
                              /\ new.text = Trim(last'.text)
                              /\ new.updatedAt >= new.createdAt
                         ELSE new = old]_vars

\* one of two comments was updated at a later instant than it was created
C10_Witness ==
    /\ last.op = "updateComment" /\ ~last.threw
    /\ Len(Flatten(comments)) = 2
    /\ \E c \in AllComments(comments) : c.id = last.id /\ c.updatedAt > c.createdAt

----------------------------------------------------------------------------
(* Further properties of the AppProvider session (Spec)                     *)

NotFoundError == "Comment not found"
NoFileError == "No file loaded"

\* C11: on a loaded document, deleteComment with an id that no record of the
\* live index has fails with the not-found error, calls setItem not once and
\* leaves the stored item and the live index as they were.
C11_DeleteUnknownFails ==
    [][\A id \in {UnknownId} \ IdsOf(comments) :
          (currentFile # NoFile /\ last'.op = "deleteComment" /\ DeleteComment(id)) =>
              (Rejected /\ error' = NotFoundError)]_vars

\* C12 (as amended): on a loaded document, updateComment with an id that no
\* record of the live index has fails with the not-found error; with no
\* document loaded it fails with the no-file error; either way the session
\* error is set, setItem is not called, and the stored item and the live
\* index stay as they were.
C12_UpdateUnknownFails ==
    [][\A id \in {UnknownId} \ IdsOf(comments), text \in Texts :
          (last'.op = "updateComment" /\ UpdateComment(id, text)) =>
              /\ Rejected
              /\ error' = (IF currentFile = NoFile THEN NoFileError
                           ELSE NotFoundError)]_vars

\* C12 (as claimed): updateComment with an id that no record of the live
\* index has fails with the not-found error, sets the session error, writes
\* nothing and leaves the live index as it was.
C12_UpdateUnknownNotFound ==
    [][\A id \in {UnknownId} \ IdsOf(comments), text \in Texts :
          (last'.op = "updateComment" /\ UpdateComment(id, text)) =>
              (Rejected /\ error' = NotFoundError)]_vars

\* updateComment has just failed to find an id in an index that has records
C12_Witness ==
    /\ last.op = "updateComment" /\ last.threw
    /\ error = NotFoundError
    /\ comments # EmptyMap
    /\ ReadIds(store, currentFile.id) # {}

\* the step went through although its write failed: nothing thrown, no
\* session error, one "Storage warning", and setItem on the storage key
\* called once when the store is full and not at all when the availability
\* probe had already failed
Degraded ==
    /\ ~last'.threw
    /\ error' = Null
    /\ last'.storageWarnings = 1
    /\ last'.setItems = (IF storageMode = "quota" THEN 1 ELSE 0)

\* C13: on a loaded document with storage unavailable or full, an addComment,
\* updateComment or deleteComment with valid input does not throw, makes the
\* transformed index the live index, tries the write once and raises exactly
\* one storage warning.
C13_OptimisticUpdate ==
    [][(currentFile # NoFile /\ storageMode # "ok") =>
          /\ \A n \in LineNumbers, text \in Texts :
                (n >= 1 /\ Trim(text) # <<>> /\ last'.op = "addComment"
                 /\ AddComment(n, text)) =>
                    /\ Degraded
                    /\ Len(Flatten(comments')) = Len(Flatten(comments)) + 1
                    /\ AllComments(comments) \subseteq AllComments(comments')
                    /\ \E c \in AllComments(comments') :
                          /\ c.id \notin IdsOf(comments)
                          /\ c.lineNumber = n
                          /\ c.text = Trim(text)
          /\ \A id \in IdsOf(comments), text \in Texts :
                (Trim(text) # <<>> /\ last'.op = "updateComment"
                 /\ UpdateComment(id, text)) =>
                    /\ Degraded
                    /\ IdsOf(comments') = IdsOf(comments)
                    /\ \E c \in AllComments(comments') :
                          c.id = id /\ c.text = Trim(text)
          /\ \A id \in IdsOf(comments) :
                (last'.op = "deleteComment" /\ DeleteComment(id)) =>
                    /\ Degraded
                    /\ IdsOf(comments') = IdsOf(comments) \ {id}]_vars

\* a comment was deleted while the store was full: the live index has moved
\* on and the stored list has not
C13_Witness ==
    /\ last.op = "deleteComment" /\ ~last.threw
    /\ last.storageWarnings = 1
    /\ storageMode = "quota"
    /\ currentFile # NoFile
    /\ IdsOf(comments) # ReadIds(store, currentFile.id)

\* the last operation changed the index and its write succeeded
WroteThrough ==
    /\ currentFile # NoFile
    /\ last.op \in {"addComment", "updateComment", "deleteComment"}
    /\ ~last.threw
    /\ last.storageWarnings = 0

\* C14: whenever the most recent addComment, updateComment or deleteComment
\* completed with a successful write, loadComments(currentFile.id) returns,
\* without throwing or warning, the records of the live index under the same
\* line keys, whatever writes failed before.
C14_WriteThrough ==
    WroteThrough =>
        LET r == loadComments(store, currentFile.id) IN
        /\ ~r.threw
        /\ r.warnings = 0
        /\ MapKeys(r.map) = MapKeys(comments)
        /\ \A n \in MapKeys(comments) :
              MapGetOrEmpty(r.map, n) = MapGetOrEmpty(comments, n)

\* a comment was written through for a document whose own record could not
\* be saved when it was loaded
C14_Witness ==
    /\ WroteThrough
    /\ comments # EmptyMap
    /\ loadFileData(store, currentFile.id).file = JNull

\* the documents that have a stored comment list
StoredDocs(item) ==
    IF IsStorageData(item) THEN DOMAIN item.v.o.comments.o ELSE {}

\* C15: after a successful loadFile, activeLineNumber is null, currentFile is
\* a new record of the file given (a new id, its name, content and lines),
\* the live index is what is stored under the new id (empty, the id never
\* having been used), and the stored comment list of every document loaded
\* before is what it was.
C15_LoadResetsSession ==
    [][\A name \in FileNames, content \in Contents :
          (ToLowerCase(name.ext) \in VALID_EXTENSIONS /\ last'.op = "loadFile"
           /\ LoadFile(name, content) /\ ~last'.threw) =>
              /\ activeLineNumber' = NoLine
              /\ currentFile' # NoFile
              /\ currentFile' # currentFile
              /\ currentFile'.id \notin StoredDocs(store)
              /\ currentFile'.name = name
              /\ currentFile'.content = content
              /\ currentFile'.lines = parseLines(content)
              /\ comments' = loadComments(store', currentFile'.id).map
              /\ comments' = EmptyMap
              /\ \A d \in StoredDocs(store) :
                    StoredList(store', d) = StoredList(store, d)]_vars

\* a second document has been loaded while the first one's comments are kept
C15_Witness ==
    /\ last.op = "loadFile" /\ ~last.threw
    /\ currentFile # NoFile
    /\ comments = EmptyMap
    /\ \E d \in StoredDocs(store) :
          d # currentFile.id /\ StoredList(store, d).a # <<>>

\* C16: when the document whose comments are all in the store is loaded
\* again (same name, same content, storage working), the live index after
\* the load holds every comment that was saved for it.
C16_RestoreOnReopen ==
    [][\A name \in FileNames, content \in Contents :
          (/\ currentFile # NoFile
           /\ storageMode = "ok"
           /\ name = currentFile.name /\ content = currentFile.content
           /\ ReadIds(store, currentFile.id) = IdsOf(comments)
           /\ last'.op = "loadFile" /\ LoadFile(name, content) /\ ~last'.threw) =>
              IdsOf(comments) \subseteq IdsOf(comments')]_vars

InvalidFileTypeError ==
    "Invalid file type. Only .md and .markdown files are supported."

\* C17: loadFile with a file whose name does not end, whatever its case, in
\* .md or .markdown fails, sets the session error, calls setItem not once
\* and leaves the stored item, currentFile, the live index and
\* activeLineNumber as they were.
C17_RejectedLoadChangesNothing ==
    [][\A name \in FileNames, content \in Contents :
          (ToLowerCase(name.ext) \notin VALID_EXTENSIONS /\ last'.op = "loadFile"
           /\ LoadFile(name, content)) =>
              /\ Rejected
              /\ error' = InvalidFileTypeError
              /\ UNCHANGED <<currentFile, activeLineNumber>>]_vars

\* a .txt file was refused while a document with a comment and an active
\* line was open
C17_Witness ==
    /\ last.op = "loadFile" /\ last.threw
    /\ error = InvalidFileTypeError
    /\ currentFile # NoFile
    /\ comments # EmptyMap
    /\ activeLineNumber # NoLine

----------------------------------------------------------------------------
(* Properties of the session with its dialogs (UiSpec)                      *)

\* every id a document can have been stored under
AnyFileId ==
    ApiFileIds \cup {generateFileId(name, t, rnd) :
                        name \in FileNames, t \in Times, rnd \in 1..MaxLoads}

\* the state clearAllData is to leave, as the session and the readers of the
\* store see it
Cleared ==
    /\ store = NoItem
    /\ currentFile = NoFile
    /\ comments = EmptyMap
    /\ activeLineNumber = NoLine
    /\ ~isCommentSummaryOpen /\ ~isExportDialogOpen
    /\ error = Null
    /\ \A d \in AnyFileId :
          /\ loadComments(store, d) = [threw |-> FALSE, map |-> EmptyMap, warnings |-> 0]
          /\ loadFileData(store, d) = [threw |-> FALSE, file |-> JNull, warnings |-> 0]
    /\ getCurrentFileId(store) = JNull
    /\ getStorageData(store).warnings = 0

\* C18: after clearAllData the stored item is gone, currentFile is null, the
\* live index is empty, activeLineNumber is null, both dialogs are closed and
\* error is null; loadComments of any id gives an empty index, loadFileData
\* gives null and getCurrentFileId gives null, with no warning; and
\* clearStorage on that state leaves the store as it is, so that a second
\* clearAllData changes nothing.
C18_ResetAll ==
    last.op = "clearAllData" => Cleared /\ clearStorage(store) = store

\* clearAllData ran on a session with a stored item, a document, a comment,
\* an active line and both dialogs open
C18_Witness ==
    /\ last.op = "clearAllData"
    /\ last.before = [item |-> TRUE, file |-> TRUE, comments |-> TRUE,
                      line |-> TRUE, dialogs |-> TRUE]

----------------------------------------------------------------------------
(* Properties of the stored documents (RegistrySpec)                        *)

\* C19: after a saveFileData(doc) that returned, loadFileData(doc.id) gives a
\* record with doc's id, name, content, lines and upload instant,
\* getCurrentFileId gives doc.id, loadFileData of every other id gives what
\* it gave before, and loadComments of every id gives the index it gave
\* before.
C19_FileRegistry ==
    [][\A d \in ApiFileIds, name \in FileNames :
          (last'.op = "saveFileData" /\ CallSaveFileData(d, name) /\ ~last'.threw) =>
              /\ loadFileData(store', d).file =
                    JObject([id |-> d, name |-> name, content |-> <<"x">>,
                             lines |-> parseLines(<<"x">>), uploadedAt |-> now])
              /\ getCurrentFileId(store') = JString(d)
              /\ \A e \in ApiFileIds \ {d} :
                    loadFileData(store', e).file = loadFileData(store, e).file
              /\ \A e \in ApiFileIds :
                    /\ loadComments(store', e).threw = loadComments(store, e).threw
                    /\ loadComments(store', e).map = loadComments(store, e).map]_vars

StorageUnavailableError == "Local storage is not available"
QuotaExceededError == "Storage quota exceeded. Please clear old data."

\* what a failed write is to be: the call throws the error of its cause and
\* the stored item is what it was
FailedWrite ==
    /\ last'.threw
    /\ last'.error = IF storageMode = "unavailable" THEN StorageUnavailableError
                     ELSE QuotaExceededError
    /\ store' = store

\* C20: with localStorage unavailable, saveComments and saveFileData throw
\* 'Local storage is not available'; with setItem failing for quota they
\* throw 'Storage quota exceeded. Please clear old data.'; in both cases the
\* stored item is what it was before the call.
C20_FailedWriteClassified ==
    [][\A d \in ApiFileIds, name \in FileNames :
          /\ (storageMode # "ok" /\ last'.op = "saveComments" /\ CallSaveComments(d))
                => FailedWrite
          /\ (storageMode # "ok" /\ last'.op = "saveFileData" /\ CallSaveFileData(d, name))
                => FailedWrite]_vars

\* a write failed for quota on a store that holds a document and a comment
C20_Witness ==
    /\ last.op \in {"saveComments", "saveFileData"}
    /\ last.threw /\ last.error = QuotaExceededError
    /\ storageMode = "quota"
    /\ comments # EmptyMap
    /\ \E d \in ApiFileIds :
          /\ loadFileData(store, d).file # JNull
          /\ loadComments(store, d).map # EmptyMap

----------------------------------------------------------------------------
(* Line numbers of the session (Spec)                                       *)

\* C21: with a document loaded, every comment of the live index is on a line
\* of that document: 1 <= lineNumber <= the number of its lines.
C21_LineNumbersWithinDocument ==
    currentFile # NoFile =>
        \A c \in AllComments(comments) :
            1 <= c.lineNumber /\ c.lineNumber <= Len(currentFile.lines)

----------------------------------------------------------------------------
(* Properties of the Map objects (HeapSpec)                                 *)

\* C22: addCommentToMap, updateCommentInMap and deleteComment return a Map
\* object that did not exist before, and every Map object that existed
\* before the call, the one passed in included, stands for the same index
\* after it: same keys in the same order, same lists in the same order.
C22_IndexMutationsArePure ==
    [][last'.op \in {"addCommentToMap", "updateCommentInMap", "deleteComment"} =>
          /\ last'.result \notin 1..Len(heap.maps)
          /\ last'.result \in 1..Len(heap'.maps)
          /\ \A m \in 1..Len(heap.maps) : Deref(heap', m) = Deref(heap, m)]_vars

\* what the Map objects stand for agrees with the operators on index values
HeapAgreesWithValues ==
    [][/\ last'.op = "addCommentToMap" =>
             \E c \in AllComments(Deref(heap', last'.result)) :
                 Deref(heap', last'.result) = addCommentToMap(Deref(heap, last'.given), c)
       /\ last'.op = "updateCommentInMap" =>
             \E c \in AllComments(Deref(heap', last'.result)) :
                 Deref(heap', last'.result) = updateCommentInMap(Deref(heap, last'.given), c)
       /\ last'.op = "deleteComment" =>
             \E id \in IdsOf(Deref(heap, last'.given)) \cup {UnknownId} :
                 Deref(heap', last'.result) = deleteComment(Deref(heap, last'.given), id)]_vars

\* a comment was added to a line of a Map that already had a comment on that
\* line, and the Map given still has one
C22_Witness ==
    /\ last.op = "addCommentToMap"
    /\ \E n \in MapKeys(Deref(heap, last.given)) :
          /\ Len(MapGetOrEmpty(Deref(heap, last.given), n)) = 1
          /\ Len(MapGetOrEmpty(Deref(heap, last.result), n)) = 2

----------------------------------------------------------------------------
(* Damaged items and the current-document pointer (RegistrySpec)            *)

\* the stored item holds nothing but what the save recorded in last wrote
OnlyWritten(item, call) ==
    /\ IsStorageData(item)
    /\ Untampered(item)
    /\ IF call.op = "saveComments"
       THEN /\ DOMAIN item.v.o.comments.o \subseteq {call.fileId}
            /\ DOMAIN item.v.o.files.o = {}
            /\ item.v.o.currentFileId = JNull
       ELSE /\ DOMAIN item.v.o.files.o \subseteq {call.fileId}
            /\ DOMAIN item.v.o.comments.o = {}
            /\ item.v.o.currentFileId = JString(call.fileId)

\* C23: when the stored item is one that getStorageData rejects (text that
\* is not JSON, or JSON without a string version, an object files and an
\* object comments), a saveComments or saveFileData that returns leaves an
\* item with a string version, an object files and an object comments that
\* holds only what was just written and that reads without a corrupted-data
\* warning; and no save ever leaves an item that reads with one.
C23_SelfHealing ==
    [][(last'.op \in {"saveComments", "saveFileData"} /\ ~last'.threw) =>
          /\ getStorageData(store').warnings = 0
          /\ (store # NoItem /\ ~IsStorageData(store)) =>
                /\ store'.v.o.version.t = "string"
                /\ store'.v.o.files.t = "object"
                /\ store'.v.o.comments.t = "object"
                /\ OnlyWritten(store', last')]_vars

\* a comment list was saved over an item that getStorageData rejected
C23_Witness ==
    /\ last.op = "saveComments" /\ ~last.threw
    /\ last.warnings = 1
    /\ last.fileId = <<"A">>
    /\ loadComments(store, <<"A">>).map # EmptyMap

----------------------------------------------------------------------------
(* The list that saveComments writes (OrderSpec)                            *)

\* C24: the list that saveComments writes under comments[fileId] is the
\* records of the index, each once, ascending by createdAt: the JSON form of
\* getAllComments(index).
C24_PersistedOrder ==
    (last.op = "saveComments" /\ ~last.threw) =>
        StoredList(store, last.fileId) =
            JArray([i \in 1..Len(getAllComments(comments)) |->
                       StringifyComment(getAllComments(comments)[i])])

----------------------------------------------------------------------------
(* Properties of the comment thread (ThreadSpec)                            *)

\* the comments of the thread that are rendered as a CommentInput
Editing == {i \in 1..Len(ThreadComments) : ThreadComments[i].id = editingCommentId}

\* C25: an edit request puts exactly the comment asked for in Editing; a
\* cancel leaves Editing without a call of onEdit and with the index, the
\* comment's text included, as it was; a save that the input passes on calls
\* onEdit once, with the id of the comment being edited and the text entered,
\* and leaves Editing; onEdit is called by nothing else; and at most one
\* comment of the thread is in Editing.
C25_EditStateMachine ==
    [][/\ last'.op = "handleEditClick" =>
             /\ Editing' = {i \in 1..Len(ThreadComments) : ThreadComments[i].id = last'.id}
             /\ Cardinality(Editing') = 1
       /\ last'.op = "handleEditCancel" =>
             /\ editingCommentId' = NoComment /\ Editing' = {}
             /\ onEditCalls' = onEditCalls
             /\ comments' = comments
       /\ last'.op = "handleEditSubmit" =>
             /\ editingCommentId' = NoComment /\ Editing' = {}
             /\ onEditCalls' = Append(onEditCalls, [commentId |-> editingCommentId,
                                                    text |-> inputText])
       /\ onEditCalls' # onEditCalls => last'.op = "handleEditSubmit"
       /\ Cardinality(Editing') <= 1]_vars

\* an edit was cancelled on a thread of two comments after another was saved
C25_Witness ==
    /\ last.op = "handleEditCancel"
    /\ Len(ThreadComments) = 2
    /\ Len(onEditCalls) = 1
    /\ onEditCalls[1].text = <<"b", " ">>
    /\ \E c \in Range(ThreadComments) : c.id = onEditCalls[1].commentId /\ c.text = <<"b">>

----------------------------------------------------------------------------
(* Properties of the export dialog (ExportSpec)                             *)

\* C27, as claimed: a download request made while the index holds no comment
\* does not reach downloadAsFile and leaves the dialog in the error state.
C27_EmptyRequestEndsInError ==
    [][(last'.op = "downloadClick" /\ TotalComments(comments) = 0) =>
          /\ downloads' = downloads
          /\ exportStatus' = "error"]_vars

\* C27: downloadAsFile is reached only with at least one comment; a click on
\* Download while the index holds no comment is not handled (the button is
\* disabled) and leaves the status, the message and the downloads as they
\* were, although handleDownload itself would set the error status and go no
\* further; a click that is handled is made in status idle or error, sets
\* loading and starts one download of the comments shown, so none starts in
\* loading or success; and a download that resumes ends in success, or in
\* error when the export throws.
C27_NoEmptyExport ==
    [][/\ downloads' # downloads =>
             \E n \in 1..MaxComments : downloads' = Append(downloads, n)
       /\ (last'.op = "downloadClick" /\ TotalComments(comments) = 0) =>
             /\ ~last'.handled
             /\ UNCHANGED <<exportStatus, errorMessage, pendingDownloads, downloads>>
             /\ handleDownload(comments).exportStatus = "error"
             /\ ~handleDownload(comments).goesOn
       /\ (last'.op = "downloadClick" /\ last'.handled) =>
             /\ exportStatus \in {"idle", "error"}
             /\ exportStatus' = "loading"
             /\ pendingDownloads' = Append(pendingDownloads, comments)
       /\ Len(pendingDownloads') > Len(pendingDownloads) =>
             last'.op = "downloadClick" /\ exportStatus \notin {"loading", "success"}
       /\ last'.op = "downloadResume" =>
             exportStatus' = IF last'.threw THEN "error" ELSE "success"]_vars

\* a click on Download was not handled, the index being empty, after an
\* earlier download of one comment
C27_Witness ==
    /\ last.op = "downloadClick" /\ ~last.handled
    /\ isExportDialogOpen
    /\ TotalComments(comments) = 0
    /\ downloads = <<1>>

----------------------------------------------------------------------------
(* Calls made between two renders (BatchSpec)                               *)

\* C28: every comment that addComment added to the document shown is in the
\* live index, and in the stored list when the write went through, whether
\* or not a render came between the calls.
C28_NoLostUpdate ==
    (currentFile # NoFile /\ rendered.currentFile = currentFile) =>
        /\ created \subseteq IdsOf(comments)
        /\ (last.op = "addComment" /\ ~last.threw /\ last.storageWarnings = 0) =>
              created \subseteq ReadIds(store, currentFile.id)

----------------------------------------------------------------------------
(* C29: key matches record *)

\* every record listed under line key L has lineNumber = L
KeyMatchesRecord(cm) ==
    \A i \in 1..Len(cm) : \A j \in 1..Len(cm[i].list) :
        cm[i].list[j].lineNumber = cm[i].line

\* C29: in every index built by addCommentToMap, updateCommentInMap and
\* deleteComment, and in every index loadComments returns for any file id
\* from the stored item as it stands, each record under line key L has
\* lineNumber = L.
C29_KeyMatchesRecord ==
    /\ KeyMatchesRecord(comments)
    /\ \A d \in ApiFileIds :
          ~loadComments(store, d).threw => KeyMatchesRecord(loadComments(store, d).map)

\* an index with records under two line keys has been saved and loaded
\* back
C29_Witness ==
    /\ last.op = "loadComments"
    /\ ~last.threw
    /\ Cardinality(MapKeys(comments)) = 2
    /\ Cardinality(AllComments(comments)) = 2

----------------------------------------------------------------------------
(* C30: the current-document pointer *)

\* currentFileId of a stored item is null or the id of a stored document
PointerNotDangling(item) ==
    \/ item.v.o.currentFileId = JNull
    \/ /\ item.v.o.currentFileId.t = "string"
       /\ HasOwnProperty(item.v.o.files.o, item.v.o.currentFileId.s)

\* saveComments alone: files and currentFileId are left as they were
SaveCommentsFrame ==
    [][(last'.op = "saveComments" /\ IsStorageData(store) /\ store' # store) =>
          /\ IsStorageData(store')
          /\ store'.v.o.files = store.v.o.files
          /\ store'.v.o.currentFileId = store.v.o.currentFileId]_vars

\* C30: in every stored item that saveFileData, saveComments and
\* clearStorage leave, starting from no item or from one getStorageData
\* rejects, currentFileId is null or a key of files; and a saveComments over
\* an item getStorageData accepts leaves files and currentFileId as they
\* were.
C30_PointerNeverDangling ==
    /\ [](IsStorageData(store) => PointerNotDangling(store))
    /\ SaveCommentsFrame

\* after a saveFileData that returned, of a document whose id is not
\* "__proto__", currentFileId is a key of files
PointerNeverDanglingOtherIds ==
    [][(last'.op = "saveFileData" /\ last'.fileId # <<"__proto__">> /\ ~last'.threw) =>
          PointerNotDangling(store')]_vars

====
